---- MODULE Spec2Model ----
(***************************************************************************)
(* Model of the P9813 LED strip driver (src/src/main.rs).                  *)
(*                                                                         *)
(* Numbers.  The program computes with f64.  The model computes the same   *)
(* expressions exactly, over rationals with fixed denominators:            *)
(*   - a hue is an integer number of 1/HueUnit degrees.  HueUnit = 5 * 19  *)
(*     makes both the start values i*360/76 and the increment 0.20 whole;  *)
(*   - saturation and value are integer numbers of 1/SVUnit;               *)
(*   - a colour channel returned by hsv_to_rgb is an integer number of     *)
(*     1/ChanDen;                                                          *)
(*   - the dimming factor (the variable the source calls gamma) is a       *)
(*     fraction [n, d] with d > 0;                                         *)
(*   - an instant is an integer number of 1/TimeRes seconds, sunrise and   *)
(*     sunset are whole seconds (Utc.timestamp(_, 0)).                     *)
(* Every intermediate value stays below 2^31.                              *)
(***************************************************************************)
EXTENDS Integers, Sequences, FiniteSets

VARIABLES
    pc,       \* position of main: "check", "body", "sleep", "final", "done", "panicked"
    running,  \* the AtomicBool shared with the ctrlc handler
    hue,      \* the hue array of main
    gamma,    \* dimming factor used to build the most recent frame
    bytes,    \* the byte buffer handed to spi.write_all by the most recent send_pixels
    failed,   \* a write_all has returned an error
    log,      \* the frames handed to the bus since running was cleared
    arg,      \* input of a single call (specifications of the pure functions)
    res       \* result of that call

vars == <<pc, running, hue, gamma, bytes, failed, log, arg, res>>

-----------------------------------------------------------------------------
(* Bounds of the model *)

\* instants per second (now has sub-second resolution, sunrise/sunset do not)
TimeRes == 2
\* saturation and value are multiples of 1/SVUnit
SVUnit == 2
\* longest hue slice given to a single hue_to_pixels call in SpecFrame
MaxLeds == 3
\* the solar window of the modelled day, seconds
Sunrise == 40000
DayLength == 30000

Sunset == Sunrise + DayLength

-----------------------------------------------------------------------------
(* Program constants *)

NUM_LEDS == 76
HueUnit == 5 * 19
Full == 360 * HueUnit
Sector == 60 * HueUnit
HueStep == HueUnit \div 5
TWO_HOURS == 60 * 60 * 2
THREE_HOURS == 60 * 60 * 3
ChanDen == SVUnit * SVUnit * Sector

-----------------------------------------------------------------------------
(* u8 arithmetic *)

Min(a, b) == IF a < b THEN a ELSE b

RECURSIVE BitAnd(_, _)
BitAnd(a, b) ==
    IF a = 0 \/ b = 0 THEN 0
    ELSE (a % 2) * (b % 2) + 2 * BitAnd(a \div 2, b \div 2)

RECURSIVE BitOr(_, _)
BitOr(a, b) ==
    IF a = 0 THEN b
    ELSE IF b = 0 THEN a
    ELSE (IF a % 2 = 1 \/ b % 2 = 1 THEN 1 ELSE 0) + 2 * BitOr(a \div 2, b \div 2)

RECURSIVE Shr(_, _)
Shr(a, k) == IF k = 0 THEN a ELSE Shr(a \div 2, k - 1)

\* !x on a u8
Not8(a) == 255 - a

-----------------------------------------------------------------------------
(* Color *)

Color(flag, blue, green, red) ==
    [flag |-> flag, blue |-> blue, green |-> green, red |-> red]

\* (x & 0xC0) >> k for every u8 x, k = 6, 4, 2
red_bits == [x \in 0..255 |-> Shr(BitAnd(x, 192), 6)]
green_bits == [x \in 0..255 |-> Shr(BitAnd(x, 192), 4)]
blue_bits == [x \in 0..255 |-> Shr(BitAnd(x, 192), 2)]

Color_new_keep(red, green, blue) ==
    Color(BitOr(BitOr(red_bits[red], green_bits[green]), blue_bits[blue]),
          blue, green, red)

Color_new(red, green, blue) ==
    Color(Not8(BitOr(BitOr(red_bits[red], green_bits[green]), blue_bits[blue])),
          blue, green, red)

-----------------------------------------------------------------------------
(* GammaTable::new(2.2, 2.2, 2.2): (((i / 255)^2.2) * 255 + 0.5) as u8 *)

Curve22 ==
    << 0, 0, 0, 0, 0, 0, 0, 0, 0, 0, 0, 0, 0, 0, 0, 1,
       1, 1, 1, 1, 1, 1, 1, 1, 1, 2, 2, 2, 2, 2, 2, 2,
       3, 3, 3, 3, 3, 4, 4, 4, 4, 5, 5, 5, 5, 6, 6, 6,
       6, 7, 7, 7, 8, 8, 8, 9, 9, 9, 10, 10, 11, 11, 11, 12,
       12, 13, 13, 13, 14, 14, 15, 15, 16, 16, 17, 17, 18, 18, 19, 19,
       20, 20, 21, 22, 22, 23, 23, 24, 25, 25, 26, 26, 27, 28, 28, 29,
       30, 30, 31, 32, 33, 33, 34, 35, 35, 36, 37, 38, 39, 39, 40, 41,
       42, 43, 43, 44, 45, 46, 47, 48, 49, 49, 50, 51, 52, 53, 54, 55,
       56, 57, 58, 59, 60, 61, 62, 63, 64, 65, 66, 67, 68, 69, 70, 71,
       73, 74, 75, 76, 77, 78, 79, 81, 82, 83, 84, 85, 87, 88, 89, 90,
       91, 93, 94, 95, 97, 98, 99, 100, 102, 103, 105, 106, 107, 109, 110, 111,
       113, 114, 116, 117, 119, 120, 121, 123, 124, 126, 127, 129, 130, 132, 133, 135,
       137, 138, 140, 141, 143, 145, 146, 148, 149, 151, 153, 154, 156, 158, 159, 161,
       163, 165, 166, 168, 170, 172, 173, 175, 177, 179, 181, 182, 184, 186, 188, 190,
       192, 194, 196, 197, 199, 201, 203, 205, 207, 209, 211, 213, 215, 217, 219, 221,
       223, 225, 227, 229, 231, 234, 236, 238, 240, 242, 244, 246, 248, 251, 253, 255 >>

\* GammaTable::new fills green_table from its blue exponent and blue_table
\* from its green exponent; main passes 2.2 for all three, so the three
\* tables hold the same curve.
red_table == Curve22
green_table == Curve22
blue_table == Curve22

correct_color(red, green, blue) ==
    Color_new(red_table[red + 1], green_table[green + 1], blue_table[blue + 1])

-----------------------------------------------------------------------------
(* send_pixels: the Color slice reinterpreted as bytes (repr(C), four u8 *)
(* fields, so 4 bytes per record in declaration order)                    *)

SizeOfColor == 4

Field(c, k) ==
    CASE k = 0 -> c.flag
      [] k = 1 -> c.blue
      [] k = 2 -> c.green
      [] OTHER -> c.red

as_bytes(pixels) ==
    [k \in 1..(Len(pixels) * SizeOfColor) |->
        Field(pixels[((k - 1) \div SizeOfColor) + 1], (k - 1) % SizeOfColor)]

-----------------------------------------------------------------------------
(* hsv_to_rgb: hue in 1/HueUnit degrees, saturation and value in 1/SVUnit; *)
(* the three channels in 1/ChanDen                                         *)

hsv_to_rgb_mod6(h, saturation, value) ==
    IF saturation * 1000000 < SVUnit
    THEN <<value * SVUnit * Sector, value * SVUnit * Sector, value * SVUnit * Sector>>
    ELSE
        LET i == h \div Sector
            frac == h - i * Sector
            v == value * SVUnit * Sector
            p == value * (SVUnit - saturation) * Sector
            q == value * (SVUnit * Sector - saturation * frac)
            t == value * (SVUnit * Sector - saturation * (Sector - frac))
            sel == i % 6
        IN  CASE sel = 0 -> <<v, t, p>>
              [] sel = 1 -> <<q, v, p>>
              [] sel = 2 -> <<p, v, t>>
              [] sel = 3 -> <<p, q, v>>
              [] sel = 4 -> <<t, p, v>>
              [] OTHER -> <<v, p, q>>

hsv_to_rgb(h, saturation, value) ==
    IF saturation * 1000000 < SVUnit
    THEN <<value * SVUnit * Sector, value * SVUnit * Sector, value * SVUnit * Sector>>
    ELSE
        LET i == h \div Sector
            frac == h - i * Sector
            v == value * SVUnit * Sector
            p == value * (SVUnit - saturation) * Sector
            q == value * (SVUnit * Sector - saturation * frac)
            t == value * (SVUnit * Sector - saturation * (Sector - frac))
            \* i as u8: saturating
            sel == IF i < 0 THEN 0 ELSE Min(i, 255)
        IN  CASE sel = 0 -> <<v, t, p>>
              [] sel = 1 -> <<q, v, p>>
              [] sel = 2 -> <<p, v, t>>
              [] sel = 3 -> <<p, q, v>>
              [] sel = 4 -> <<t, p, v>>
              [] OTHER -> <<v, p, q>>

-----------------------------------------------------------------------------
(* (c * gamma) as u8 for a channel c (in 1/ChanDen) and a dimming factor   *)
(* g = [n, d]: the product truncated toward zero and saturated to 0..255   *)
(* (a float to integer cast saturates; a negative product gives 0).        *)
(* floor(a*b / (ChanDen*d)) is computed from b = qg*d + rg to stay small.  *)

Abs(x) == IF x < 0 THEN -x ELSE x

Trunc(c, g) ==
    LET a == Abs(c)
        b == Abs(g.n)
        qg == b \div g.d
        rg == b % g.d
    IN  (a * qg + (a * rg) \div g.d) \div ChanDen

Negative(c, g) == (c < 0 /\ g.n > 0) \/ (c > 0 /\ g.n < 0)

mul_as_u8_wrapping(c, g) ==
    IF Negative(c, g) THEN (256 - (Trunc(c, g) % 256)) % 256
    ELSE Trunc(c, g) % 256

mul_as_u8(c, g) ==
    IF c = 0 \/ g.n = 0 \/ Negative(c, g) THEN 0 ELSE Min(Trunc(c, g), 255)

-----------------------------------------------------------------------------
(* hue_to_pixels *)

Zero == Color(0, 0, 0, 0)
One == SVUnit

scaled(rgb, g) ==
    correct_color(mul_as_u8(rgb[1], g), mul_as_u8(rgb[2], g), mul_as_u8(rgb[3], g))

pixel_of(h, g) == scaled(hsv_to_rgb(h, One, One), g)

hue_to_pixels_short(hues, g) ==
    <<Zero>> \o [i \in 1..Len(hues) |-> pixel_of(hues[i], g)] \o <<Zero>>

hue_to_pixels(hues, g) ==
    <<Zero>> \o [i \in 1..Len(hues) |-> pixel_of(hues[i], g)] \o <<Zero, Zero>>

send_pixels(pixels) == as_bytes(pixels)

-----------------------------------------------------------------------------
(* main: the dimming computation.  now in 1/TimeRes seconds; sunrise and   *)
(* sunset in seconds; num_seconds() truncates the difference.              *)

Frac(n, d) == [n |-> n, d |-> d]

dimming_night_full(now, sunrise, sunset) ==
    LET sr == sunrise * TimeRes
        ss == sunset * TimeRes
    IN  IF now > sr /\ now < ss THEN Frac(0, 1)
        ELSE IF now < sr /\ (sr - now) \div TimeRes < TWO_HOURS
        THEN Frac(255 * TWO_HOURS - ((sr - now) \div TimeRes) * 255, TWO_HOURS)
        ELSE IF now > ss /\ (now - ss) \div TimeRes < THREE_HOURS
        THEN Frac(255 * THREE_HOURS - ((now - ss) \div TimeRes) * 255, THREE_HOURS)
        ELSE Frac(255, 1)

dimming_no_day(now, sunrise, sunset) ==
    LET sr == sunrise * TimeRes
        ss == sunset * TimeRes
    IN  IF now < sr
        THEN Frac(255 * TWO_HOURS - ((sr - now) \div TimeRes) * 255, TWO_HOURS)
        ELSE IF now > ss
        THEN Frac(255 * THREE_HOURS - ((now - ss) \div TimeRes) * 255, THREE_HOURS)
        ELSE Frac(255, 1)

dimming(now, sunrise, sunset) ==
    LET sr == sunrise * TimeRes
        ss == sunset * TimeRes
    IN  IF now > sr /\ now < ss THEN Frac(0, 1)
        ELSE IF now < sr
        THEN Frac(255 * TWO_HOURS - ((sr - now) \div TimeRes) * 255, TWO_HOURS)
        ELSE IF now > ss
        THEN Frac(255 * THREE_HOURS - ((now - ss) \div TimeRes) * 255, THREE_HOURS)
        ELSE Frac(255, 1)

-----------------------------------------------------------------------------
(* main: hue initialisation and per-tick advance *)

hue_init == [i \in 1..NUM_LEDS |-> ((i - 1) * 360 * HueUnit) \div NUM_LEDS]

advance_no_wrap(h) == [i \in 1..Len(h) |-> h[i] + HueStep]

advance(h) ==
    [i \in 1..Len(h) |-> IF h[i] + HueStep >= Full THEN 0 ELSE h[i] + HueStep]

\* the frame of line 219
final_pixels_dimmed(h, g) == hue_to_pixels(h, g)

final_pixels(h, g) == hue_to_pixels(h, Frac(0, 1))

\* io::Result::unwrap after send_pixels
unwrap_ignored(ok, next) == next

unwrap(ok, next) == IF ok THEN next ELSE "panicked"

\* one pass of the loop body: dimming, hue advance, frame, bytes for the bus
tick(h, now, sunrise, sunset) ==
    LET g == dimming(now, sunrise, sunset)
        h2 == advance(h)
    IN  [gamma |-> g, hue |-> h2, bytes |-> send_pixels(hue_to_pixels(h2, g))]

-----------------------------------------------------------------------------
(* The program *)

\* instants at which the loop samples the clock
NowMain == {(Sunrise + 1) * TimeRes, (Sunset + 5400) * TimeRes}

NoArg == [fn |-> "none"]

Init ==
    /\ pc = "check"
    /\ running = TRUE
    /\ hue = hue_init
    /\ gamma = Frac(255, 1)
    /\ bytes = <<>>
    /\ failed = FALSE
    /\ log = <<>>
    /\ arg = NoArg
    /\ res = NoArg

\* the ctrlc handler
CtrlC ==
    /\ pc \in {"check", "body", "sleep", "final"}
    /\ running' = FALSE
    /\ UNCHANGED <<pc, hue, gamma, bytes, failed, log, arg, res>>

\* while running.load(SeqCst)
Check ==
    /\ pc = "check"
    /\ pc' = IF running THEN "body" ELSE "final"
    /\ UNCHANGED <<running, hue, gamma, bytes, failed, log, arg, res>>

\* the loop body up to and including send_pixels(..).unwrap()
Body ==
    /\ pc = "body"
    /\ \E now \in NowMain :
        \E t \in {tick(hue, now, Sunrise, Sunset)} :
            /\ gamma' = t.gamma
            /\ hue' = t.hue
            /\ bytes' = t.bytes
            /\ log' = IF running THEN log
                      ELSE Append(log, [kind |-> "tick", gamma |-> t.gamma])
            /\ \E ok \in BOOLEAN :
                /\ failed' = ~ok
                /\ pc' = unwrap(ok, "sleep")
    /\ UNCHANGED <<running, arg, res>>

\* std::thread::sleep(16 ms)
Sleep ==
    /\ pc = "sleep"
    /\ pc' = "check"
    /\ UNCHANGED <<running, hue, gamma, bytes, failed, log, arg, res>>

\* the lights-off frame after the loop
Final ==
    /\ pc = "final"
    /\ bytes' = send_pixels(final_pixels(hue, gamma))
    /\ \E ok \in BOOLEAN :
        /\ failed' = ~ok
        /\ pc' = unwrap(ok, "done")
    /\ gamma' = Frac(0, 1)
    /\ log' = IF running THEN log
              ELSE Append(log, [kind |-> "final", gamma |-> Frac(0, 1)])
    /\ UNCHANGED <<running, hue, arg, res>>

Next == CtrlC \/ Check \/ Body \/ Sleep \/ Final

Spec == Init /\ [][Next]_vars

-----------------------------------------------------------------------------
(* Single calls of the pure functions, on inputs drawn from bounded sets *)

ChanSamples == {0, 63, 64, 127, 128, 191, 192, 255}

HueSamples == {0, 47 * HueUnit + 10, 200 * HueUnit, Full - 1}
HueLists == UNION {[1..n -> HueSamples] : n \in 0..MaxLeds}

HueIn == {d * HueUnit + o : d \in 0..359, o \in {0, HueStep}}

SecMarks ==
    {0, 1, 3600, TWO_HOURS - 1, TWO_HOURS, TWO_HOURS + 1,
     THREE_HOURS - 1, THREE_HOURS, THREE_HOURS + 1, 20000}
Offsets == {s * TimeRes + j : s \in SecMarks, j \in 0..(TimeRes - 1)}
NowSet ==
    UNION {{Sunrise * TimeRes - o, Sunrise * TimeRes + o,
            Sunset * TimeRes - o, Sunset * TimeRes + o} : o \in Offsets}

Idle ==
    /\ pc = "call"
    /\ running = TRUE
    /\ hue = <<>>
    /\ gamma = Frac(255, 1)
    /\ bytes = <<>>
    /\ failed = FALSE
    /\ log = <<>>
    /\ res = NoArg

Return(r) ==
    /\ pc' = "ret"
    /\ res' = r
    /\ UNCHANGED <<running, hue, gamma, bytes, failed, log, arg>>

\* Color::new and GammaTable::correct_color
InitColor ==
    /\ Idle
    /\ arg \in [red : 0..255, green : ChanSamples, blue : ChanSamples]

CallColorNew ==
    /\ pc = "call"
    /\ LET c == Color_new(arg.red, arg.green, arg.blue)
       IN  Return([fn |-> "new", color |-> c, bytes |-> send_pixels(<<c>>)])

CallCorrectColor ==
    /\ pc = "call"
    /\ LET c == correct_color(arg.red, arg.green, arg.blue)
       IN  Return([fn |-> "correct_color", color |-> c, bytes |-> send_pixels(<<c>>)])

NextColor == CallColorNew \/ CallCorrectColor

SpecColor == InitColor /\ [][NextColor]_vars

\* hsv_to_rgb at a hue and at the hue a full turn later
InitHsv ==
    /\ Idle
    /\ arg \in [hue : HueIn, s : 0..SVUnit, v : 0..SVUnit]

CallHsv ==
    /\ pc = "call"
    /\ Return([fn |-> "hsv_to_rgb",
               lo |-> hsv_to_rgb(arg.hue, arg.s, arg.v),
               hi |-> hsv_to_rgb(arg.hue + Full, arg.s, arg.v)])

NextHsv == CallHsv

SpecHsv == InitHsv /\ [][NextHsv]_vars

\* one pass of the loop body on any hue slice at any instant
InitFrame ==
    /\ Idle
    /\ arg \in [hue : HueLists, now : NowSet]

CallTick ==
    /\ pc = "call"
    /\ \E t \in {tick(arg.hue, arg.now, Sunrise, Sunset)} :
        Return([fn |-> "tick", gamma |-> t.gamma, hue |-> t.hue, bytes |-> t.bytes])

NextFrame == CallTick

SpecFrame == InitFrame /\ [][NextFrame]_vars

-----------------------------------------------------------------------------
(* Properties *)

Off == Frac(0, 1)

\* the red, green and blue bytes of the LED records of a frame of n LEDs are 0
AllLedsOff(b, n) ==
    \A i \in 1..n :
        /\ b[SizeOfColor * i + 2] = 0
        /\ b[SizeOfColor * i + 3] = 0
        /\ b[SizeOfColor * i + 4] = 0

LastKind == IF log = <<>> THEN "none" ELSE log[Len(log)].kind

(* C1, as stated: once the shutdown flag is cleared while the loop runs,   *)
(* exactly one more frame is transmitted, it is the lights-off frame built *)
(* with dimming 0, and nothing is transmitted after it.                    *)
C1_ExactlyOneMoreFrame ==
    /\ Len(log) <= 1
    /\ \A k \in 1..Len(log) : log[k].kind = "final" /\ log[k].gamma.n = 0
    /\ pc = "done" => Len(log) = 1

(* C1, amended: after the flag is cleared the loop finishes the tick in    *)
(* progress, which transmits at most one more ordinary frame; then, unless *)
(* a bus write failed, it transmits exactly one lights-off frame built     *)
(* with dimming 0 from the current hues and exits; the lights-off frame is *)
(* the last transmission.                                                  *)
C1_ShutdownFrames ==
    /\ Len(log) <= 2
    /\ \A k \in 1..Len(log) :
        log[k].kind = "final" => (k = Len(log) /\ log[k].gamma.n = 0)
    /\ Len(log) = 2 => log[1].kind = "tick"
    /\ pc = "done" =>
        /\ ~running
        /\ LastKind = "final"
        /\ bytes = send_pixels(hue_to_pixels(hue, Off))
    /\ pc = "panicked" => failed

C1_Witness == pc = "done" /\ Len(log) = 2 /\ log[1].gamma.n > 0

(* C7: in every reachable state of the animation loop every element of the *)
(* hue array lies in [0, 360).                                             *)
C7_HueInRange == \A i \in 1..Len(hue) : 0 <= hue[i] /\ hue[i] < Full

C7_Witness ==
    /\ Len(hue) = NUM_LEDS
    /\ \A i \in 1..NUM_LEDS : hue[i] < hue_init[i] \/ hue_init[i] = 0
    /\ hue[1] > 0

(* C9: a bus write failure is fatal: once a write has failed the program   *)
(* is terminated, and nothing is transmitted and no hue advanced after it. *)
C9_FatalNoRetry ==
    /\ [](failed => pc = "panicked")
    /\ [][failed => UNCHANGED <<pc, hue, gamma, bytes, log, failed>>]_vars

C9_Witness == failed /\ pc = "panicked" /\ LastKind = "final"

(* C10, as stated: a tick takes every hue to (hue + increment) mod 360.    *)
C10_AdvanceModulo ==
    [][hue' # hue =>
        \A i \in 1..Len(hue) : hue'[i] = (hue[i] + HueStep) % Full]_vars

-----------------------------------------------------------------------------
(* Properties of the single calls *)

Returned(f) == pc = "ret" /\ res.fn = f

Slice(b, from, n) == [k \in 1..n |-> b[from + k - 1]]

(* C2: for every LED count N, hue slice and dimming factor the bytes       *)
(* written are one all-zero 4-byte record, the N pixel records in hue      *)
(* index order, and two all-zero 4-byte records: 4 * (N + 3) bytes.        *)
C2_FrameLayout ==
    Returned("tick") =>
        LET n == Len(arg.hue)
            b == res.bytes
        IN  /\ Len(b) = 4 * (n + 3)
            /\ Slice(b, 1, 4) = <<0, 0, 0, 0>>
            /\ \A i \in 1..n :
                Slice(b, 4 * i + 1, 4) = as_bytes(<<pixel_of(res.hue[i], res.gamma)>>)
            /\ Slice(b, 4 * (n + 1) + 1, 8) = <<0, 0, 0, 0, 0, 0, 0, 0>>

C2_Witness ==
    /\ Returned("tick")
    /\ Len(arg.hue) = 2
    /\ Len(res.bytes) = 20
    /\ res.bytes[5] = 255

\* the two most significant bits of a u8
Top2(x) == x \div 64

PackedTop2(r, g, b) == Top2(r) + 4 * Top2(g) + 16 * Top2(b)

FlagEncodes(b, r, g, bl) ==
    /\ Len(b) = 4
    /\ b[1] % 64 = 63 - PackedTop2(r, g, bl)
    /\ b[1] \div 64 = 3
    /\ b[2] = bl
    /\ b[3] = g
    /\ b[4] = r

(* C3: Color::new(red, green, blue), and correct_color on the gamma        *)
(* corrected values it stores, give the bytes flag, blue, green, red; the  *)
(* low 6 bits of flag are the complement of the packed top two bits of     *)
(* red, green and blue, and bits 6 and 7 of flag are set.                  *)
C3_FlagEncoding ==
    /\ Returned("new") => FlagEncodes(res.bytes, arg.red, arg.green, arg.blue)
    /\ Returned("correct_color") =>
        FlagEncodes(res.bytes, red_table[arg.red + 1],
                    green_table[arg.green + 1], blue_table[arg.blue + 1])

C3_Witness ==
    /\ Returned("correct_color")
    /\ arg.red = 255 /\ arg.green = 128 /\ arg.blue = 0
    /\ res.bytes[1] = 252

Night(now) ==
    \/ now < (Sunrise - TWO_HOURS) * TimeRes
    \/ now > (Sunset + THREE_HOURS) * TimeRes

Day(now) == now > Sunrise * TimeRes /\ now < Sunset * TimeRes

(* C4, as stated: more than 2 hours before sunrise or more than 3 hours    *)
(* after sunset the dimming factor is 255.                                 *)
C4_NightFullBrightness ==
    (Returned("tick") /\ Night(arg.now)) => res.gamma.n = 255 * res.gamma.d

(* C4, amended: more than 2 hours before sunrise or more than 3 hours      *)
(* after sunset the dimming factor is 255 - elapsed * 255 / window, which  *)
(* is zero or negative, and the frame transmitted has every LED off.       *)
C4_NightOff ==
    (Returned("tick") /\ Night(arg.now)) =>
        /\ res.gamma.n <= 0
        /\ AllLedsOff(res.bytes, Len(arg.hue))

C4_Witness ==
    /\ Returned("tick")
    /\ arg.now > (Sunset + THREE_HOURS) * TimeRes
    /\ res.gamma.n < 0
    /\ Len(arg.hue) > 0

(* C5: strictly between sunrise and sunset the dimming factor is exactly   *)
(* 0 and every LED record of the frame has red = green = blue = 0.         *)
C5_DayOff ==
    (Returned("tick") /\ Day(arg.now)) =>
        /\ res.gamma.n = 0
        /\ AllLedsOff(res.bytes, Len(arg.hue))

C5_Witness ==
    /\ Returned("tick")
    /\ Day(arg.now)
    /\ Len(arg.hue) > 0
    /\ res.bytes[5] = 255

Clamp(g) ==
    IF g.n < 0 THEN Frac(0, 1)
    ELSE IF g.n > 255 * g.d THEN Frac(255, 1)
    ELSE g

(* C6: the frame transmitted equals the frame built with the dimming       *)
(* factor clamped to [0, 255], and every channel value used to index a     *)
(* gamma table lies in 0..255.                                             *)
C6_ClampedAtUse ==
    Returned("tick") =>
        /\ res.bytes = send_pixels(hue_to_pixels(res.hue, Clamp(res.gamma)))
        /\ \A i \in 1..Len(res.hue) : \A c \in 1..3 :
            mul_as_u8(hsv_to_rgb(res.hue[i], One, One)[c], res.gamma) \in 0..255

C6_Witness ==
    /\ Returned("tick")
    /\ res.gamma.n < 0
    /\ Len(arg.hue) > 0

\* the triple the six-sector conversion selects in sector k at fraction f
SectorTriple(k, f, s, v) ==
    LET vv == v * SVUnit * Sector
        p == v * (SVUnit - s) * Sector
        q == v * (SVUnit * Sector - s * f)
        t == v * (SVUnit * Sector - s * (Sector - f))
    IN  CASE k = 0 -> <<vv, t, p>>
          [] k = 1 -> <<q, vv, p>>
          [] k = 2 -> <<p, vv, t>>
          [] k = 3 -> <<p, q, vv>>
          [] k = 4 -> <<t, p, vv>>
          [] k = 5 -> <<vv, p, q>>

(* C8, as stated: hsv_to_rgb(h, s, v) = hsv_to_rgb(h + 360, s, v).          *)
C8_Periodic == Returned("hsv_to_rgb") => res.lo = res.hi

(* C8, amended: for a hue in [0, 360) hsv_to_rgb uses sector               *)
(* floor(hue / 60); for the hue a full turn later it uses sector 5 at the  *)
(* same fraction, so the two results are equal for hues in [300, 360).     *)
C8_SectorOfHue ==
    Returned("hsv_to_rgb") =>
        /\ res.lo = SectorTriple(arg.hue \div Sector, arg.hue % Sector, arg.s, arg.v)
        /\ res.hi = SectorTriple(5, arg.hue % Sector, arg.s, arg.v)
        /\ arg.hue >= 5 * Sector => res.lo = res.hi

C8_Witness ==
    /\ Returned("hsv_to_rgb")
    /\ arg.hue < Sector
    /\ res.lo # res.hi

====
